---- MODULE Spec2Model ----
(***************************************************************************)
(* Model of src/src/integrate.cpp: the explicit one-step integrators       *)
(* Euler, MidPoint, Ralston, RK4 and ExplicitRungeKutta.                   *)
(*                                                                         *)
(* Every stepper is a little process: one action per statement of its      *)
(* body, so that the order of evaluator calls and state writes, and the    *)
(* interleaving of two calls, are visible.                                 *)
(*                                                                         *)
(* Numbers.  The code computes in IEEE-754 double.  A double is modelled   *)
(* as NaN, +Inf, -Inf or a finite value; a finite value is the exact       *)
(* rational (-1)^neg * mag / (2^e2 * 3^e3 * 5^e5), mag an arbitrary-       *)
(* precision natural number (the coefficients of the code have             *)
(* denominators made of twos and threes, decimal literals add the fives).  *)
(* Rounding to 53 bits is not modelled; the range is: a finite result      *)
(* whose magnitude exceeds DblMax overflows to an infinity, and 0*Inf and  *)
(* Inf-Inf are NaN, as in the hardware.                                    *)
(***************************************************************************)
EXTENDS Integers, Sequences, FiniteSets, TLC

(***************************************************************************)
(* Arbitrary-precision naturals: little-endian sequences of limbs in       *)
(* 0..Base-1 without high zero limbs; <<>> is 0.                           *)
(***************************************************************************)
Base == 10000

Max(a, b) == IF a >= b THEN a ELSE b

\* The i-th limb, 0 beyond the highest one
Limb(a, i) == IF i <= Len(a) THEN a[i] ELSE 0

\* a without its high zero limbs
BNorm(a) ==
    LET nz == {i \in 1..Len(a) : a[i] # 0}
    IN  IF nz = {} THEN <<>>
        ELSE SubSeq(a, 1, CHOOSE i \in nz : \A j \in nz : j <= i)

\* The carry into limb i of a + b: some lower limb overflows and every limb
\* between passes the carry on
BCarry(a, b, i) ==
    \E j \in 1..(i - 1) :
        /\ Limb(a, j) + Limb(b, j) >= Base
        /\ \A l \in (j + 1)..(i - 1) : Limb(a, l) + Limb(b, l) = Base - 1

BAdd(a, b) ==
    BNorm([i \in 1..(Max(Len(a), Len(b)) + 1) |->
              (Limb(a, i) + Limb(b, i) + IF BCarry(a, b, i) THEN 1 ELSE 0) % Base])

\* The borrow from limb i of a - b
BBorrow(a, b, i) ==
    \E j \in 1..(i - 1) :
        /\ a[j] < Limb(b, j)
        /\ \A l \in (j + 1)..(i - 1) : a[l] = Limb(b, l)

\* a - b for a >= b
BSub(a, b) ==
    BNorm([i \in 1..Len(a) |->
              (a[i] - Limb(b, i) - (IF BBorrow(a, b, i) THEN 1 ELSE 0) + Base) % Base])

\* -1, 0, 1 as a < b, a = b, a > b
BCmp(a, b) ==
    LET df == {i \in 1..Len(a) : a[i] # Limb(b, i)}
        top == CHOOSE i \in df : \A j \in df : j <= i
    IN  IF Len(a) < Len(b) THEN -1
        ELSE IF Len(a) > Len(b) THEN 1
        ELSE IF df = {} THEN 0
        ELSE IF a[top] < b[top] THEN -1 ELSE 1

\* a * Base^n
BShift(a, n) == IF a = <<>> THEN <<>> ELSE [j \in 1..n |-> 0] \o a

\* a * m for a limb-sized m: the low halves of the limb products plus the
\* high halves one limb up
BMulS(a, m) ==
    IF a = <<>> THEN <<>>
    ELSE
    BAdd([i \in 1..Len(a) |-> (a[i] * m) % Base],
         BShift([i \in 1..Len(a) |-> (a[i] * m) \div Base], 1))

\* a * b, limb by limb of b
RECURSIVE BMulL(_, _)
BMulL(a, b) ==
    IF b = <<>> THEN <<>>
    ELSE BAdd(BMulS(a, Head(b)), BShift(BMulL(a, Tail(b)), 1))

BMul(a, b) == IF Len(a) >= Len(b) THEN BMulL(a, b) ELSE BMulL(b, a)

\* Long division by a limb-sized m from limb i down, r the remainder so far
RECURSIVE BRemFrom(_, _, _, _)
BRemFrom(a, m, i, r) ==
    IF i = 0 THEN r ELSE BRemFrom(a, m, i - 1, (r * Base + a[i]) % m)

\* a mod m for a limb-sized m; the lowest limb decides when m divides Base
BRem(a, m) ==
    IF a = <<>> THEN 0
    ELSE IF Base % m = 0 THEN a[1] % m
    ELSE BRemFrom(a, m, Len(a), 0)

RECURSIVE BQuoFrom(_, _, _, _)
BQuoFrom(a, m, i, r) ==
    IF i = 0 THEN <<>>
    ELSE BQuoFrom(a, m, i - 1, (r * Base + a[i]) % m)
         \o <<(r * Base + a[i]) \div m>>

\* a div m for a limb-sized m; a * (Base / m) / Base when m divides Base
BQuo(a, m) ==
    IF a = <<>> THEN <<>>
    ELSE IF Base % m = 0 THEN BNorm(Tail(BMulS(a, Base \div m)))
    ELSE BNorm(BQuoFrom(a, m, Len(a), 0))

RECURSIVE BFromNat(_)
BFromNat(n) == IF n = 0 THEN <<>> ELSE <<n % Base>> \o BFromNat(n \div Base)

\* The largest n with p^n limb-sized, for the primes 2, 3, 5 of a denominator
Chunk(p) == IF p = 2 THEN 13 ELSE IF p = 3 THEN 8 ELSE 5

\* a * p^n, a limb-sized power of p at a time
RECURSIVE BMulPow(_, _, _)
BMulPow(a, p, n) ==
    IF n = 0 \/ a = <<>> THEN a
    ELSE IF n <= Chunk(p) THEN BMulS(a, p ^ n)
    ELSE BMulPow(BMulS(a, p ^ Chunk(p)), p, n - Chunk(p))

(***************************************************************************)
(* Doubles.                                                                *)
(***************************************************************************)
\* The largest finite magnitude (DBL_MAX, scaled down).
DblMax == 1000

NaN == [k |-> "nan", neg |-> FALSE, mag |-> <<>>, e2 |-> 0, e3 |-> 0, e5 |-> 0]
Inf(neg) == [k |-> "inf", neg |-> neg, mag |-> <<>>, e2 |-> 0, e3 |-> 0, e5 |-> 0]
Zero == [k |-> "fin", neg |-> FALSE, mag |-> <<>>, e2 |-> 0, e3 |-> 0, e5 |-> 0]

\* mag / p^e with the common powers of p cancelled, p^4 at a time while
\* that divides
RECURSIVE Strip(_, _, _)
Strip(mag, e, p) ==
    IF e >= 4 /\ BRem(mag, p ^ 4) = 0 THEN Strip(BQuo(mag, p ^ 4), e - 4, p)
    ELSE IF e >= 1 /\ BRem(mag, p) = 0 THEN Strip(BQuo(mag, p), e - 1, p)
    ELSE [m |-> mag, e |-> e]

\* The finite value whose numerator and exponents are left after the
\* cancellation of the twos (s2), the threes (s3) and the fives (s5)
Fin(neg, s2, s3, s5) ==
    [k |-> "fin", neg |-> neg, mag |-> s5.m, e2 |-> s2.e, e3 |-> s3.e, e5 |-> s5.e]
Fin5(neg, s2, s3, e5) == Fin(neg, s2, s3, Strip(s3.m, e5, 5))
Fin3(neg, s2, e3, e5) == Fin5(neg, s2, Strip(s2.m, e3, 3), e5)

\* The finite value (-1)^neg * mag / (2^e2 * 3^e3 * 5^e5), in lowest terms.
MkFin(neg, mag, e2, e3, e5) ==
    IF mag = <<>> THEN Zero ELSE Fin3(neg, Strip(mag, e2, 2), e3, e5)

\* The literal n / (2^e2 * 3^e3), n an integer.
Q(n, e2, e3) == MkFin(n < 0, BFromNat(IF n < 0 THEN -n ELSE n), e2, e3, 0)

\* The decimal literal n / 10^p.
Dec(n, p) == MkFin(n < 0, BFromNat(IF n < 0 THEN -n ELSE n), p, 0, p)

\* x's numerator over the denominator 2^e2 * 3^e3 * 5^e5
Align(x, e2, e3, e5) ==
    BMulPow(BMulPow(BMulPow(x.mag, 2, e2 - x.e2), 3, e3 - x.e3), 5, e5 - x.e5)

AbsCmpAt(x, y, e2, e3, e5) == BCmp(Align(x, e2, e3, e5), Align(y, e2, e3, e5))

\* -1, 0, 1 as |x| < |y|, |x| = |y|, |x| > |y|, for finite x, y
AbsCmp(x, y) ==
    AbsCmpAt(x, y, Max(x.e2, y.e2), Max(x.e3, y.e3), Max(x.e5, y.e5))

IsFinite(x) == x.k = "fin"
IsZero(x) == x.k = "fin" /\ x.mag = <<>>

\* Overflow: a result beyond the largest finite double is an infinity.
Range(x) ==
    IF BCmp(x.mag, Align([mag |-> BFromNat(DblMax), e2 |-> 0, e3 |-> 0, e5 |-> 0],
                         x.e2, x.e3, x.e5)) > 0
    THEN Inf(x.neg) ELSE x

\* The sign and the numerator of (-1)^xn * a + (-1)^yn * b
SumNeg(xn, yn, a, b) == IF xn = yn \/ BCmp(a, b) >= 0 THEN xn ELSE yn
SumMag(xn, yn, a, b) ==
    IF xn = yn THEN BAdd(a, b)
    ELSE IF BCmp(a, b) >= 0 THEN BSub(a, b) ELSE BSub(b, a)

FinSum(xn, yn, a, b, e2, e3, e5) ==
    MkFin(SumNeg(xn, yn, a, b), SumMag(xn, yn, a, b), e2, e3, e5)

FinAddAt(x, y, e2, e3, e5) ==
    FinSum(x.neg, y.neg, Align(x, e2, e3, e5), Align(y, e2, e3, e5), e2, e3, e5)

FinAdd(x, y) == FinAddAt(x, y, Max(x.e2, y.e2), Max(x.e3, y.e3), Max(x.e5, y.e5))

FinMul(x, y) ==
    MkFin(x.neg # y.neg, BMul(x.mag, y.mag),
          x.e2 + y.e2, x.e3 + y.e3, x.e5 + y.e5)

\* double operator+
DAdd(x, y) ==
    IF x.k = "nan" \/ y.k = "nan" THEN NaN
    ELSE IF x.k = "inf" /\ y.k = "inf" THEN (IF x.neg = y.neg THEN x ELSE NaN)
    ELSE IF x.k = "inf" THEN x
    ELSE IF y.k = "inf" THEN y
    ELSE Range(FinAdd(x, y))

\* double operator*
DMul(x, y) ==
    IF x.k = "nan" \/ y.k = "nan" THEN NaN
    ELSE IF x.k = "inf" \/ y.k = "inf"
         THEN (IF IsZero(x) \/ IsZero(y) THEN NaN ELSE Inf(x.neg # y.neg))
    ELSE Range(FinMul(x, y))

\* unary minus
DNeg(x) == IF x.k = "nan" \/ IsZero(x) THEN x ELSE [x EXCEPT !.neg = ~x.neg]

\* double operator-
DSub(x, y) == DAdd(x, DNeg(y))

RECURSIVE Exponent(_, _)
Exponent(mag, p) ==
    IF BRem(mag, p) = 0 THEN 1 + Exponent(BQuo(mag, p), p) ELSE 0

\* double operator/ by a nonzero finite literal 2^i * 3^j (2 and 6.0 in the code)
DDiv(x, y) ==
    DMul(x, MkFin(y.neg, BMulPow(BMulPow(<<1>>, 2, y.e2), 3, y.e3),
                  Exponent(y.mag, 2), Exponent(y.mag, 3), 0))

\* x < y on doubles that are not NaN
DLess(x, y) ==
    IF x.k = "inf" THEN x.neg /\ ~(y.k = "inf" /\ y.neg)
    ELSE IF y.k = "inf" THEN ~y.neg
    ELSE IF x.neg # y.neg THEN x.neg
    ELSE AbsCmp(IF x.neg THEN y ELSE x, IF x.neg THEN x ELSE y) < 0

\* |x|
DAbs(x) == IF x.k = "nan" THEN x ELSE [x EXCEPT !.neg = FALSE]

(***************************************************************************)
(* Data (data.hpp is not part of the sources; the fields are those the     *)
(* steppers use).                                                          *)
(***************************************************************************)
\* DeltaState(): the default-constructed, all-zero stage
ZeroDelta == [vel |-> Zero, accel |-> Zero]

\* The literals of the code
Half == Q(1, 1, 0)
Two == Q(2, 0, 0)
Six == Q(6, 0, 0)
Quarter == Q(1, 2, 0)
ThreeQuarters == Q(3, 2, 0)
OneAndHalf == Q(3, 1, 0)
TwoThirds == Q(2, 0, 1)
One == Q(1, 0, 0)

(***************************************************************************)
(* The derivative evaluator, supplied by the host.  Two families:          *)
(*   "tbl": the n-th call of a step returns scale * tbl[n], whatever its   *)
(*          arguments (an arbitrary evaluator, seen through its returns);  *)
(*   "ode": the derivative function f(t,y) = a*y + b*t + c applied to      *)
(*          both components, at the intermediate point that the previous   *)
(*          stage(s) and the time offset describe.                         *)
(***************************************************************************)
F(ev, t, y) == DAdd(DAdd(DMul(ev.a, y), DMul(ev.b, t)), ev.c)

ScaleDelta(s, d) == [vel |-> DMul(s, d.vel), accel |-> DMul(s, d.accel)]

\* Fixed-stage form: (state, time, timeOffset, previousStage) -> DeltaState
\* f at time tt, at the state moved by off along the previous stage
FAt(ev, tt, st, off, prev) ==
    [vel   |-> F(ev, tt, DAdd(st.pos, DMul(off, prev.vel))),
     accel |-> F(ev, tt, DAdd(st.vel, DMul(off, prev.accel)))]

evaluateFunc(ev, n, st, t, off, prev) ==
    IF ev.kind = "tbl" THEN ScaleDelta(ev.scale, ev.tbl[n])
    ELSE FAt(ev, DAdd(t, off), st, off, prev)

\* SUM[j < i] a[i][j] * ks[j].fld, stages counted from 0 as in the code
RECURSIVE StageSum(_, _, _, _)
StageSum(arow, stages, i, fld) ==
    IF i = 0 THEN Zero
    ELSE DAdd(StageSum(arow, stages, i - 1, fld), DMul(arow[i], stages[i][fld]))

\* Generic form: (state, time, deltaTime, ks, tableau, i) -> DeltaState
evaluateFuncRK(ev, st, t, h, stages, tab, idx) ==
    IF ev.kind = "tbl" THEN ScaleDelta(ev.scale, ev.tbl[idx + 1])
    ELSE FAt(ev, DAdd(t, DMul(tab.c[idx + 1], h)), st, h,
             [vel   |-> StageSum(tab.a[idx + 1], stages, idx, "vel"),
              accel |-> StageSum(tab.a[idx + 1], stages, idx, "accel")])

(***************************************************************************)
(* The right-hand sides of the steppers' assignments.                      *)
(***************************************************************************)
\* Euler, line 27: the third argument of the call
EulerArg3(h) == h
\* Variant of line 29 that forgets the timestep
EulerPos_NoStep(st, h, k1) == DAdd(st.pos, k1.vel)
\* line 29
EulerPos(st, h, k1) == DAdd(st.pos, DMul(h, k1.vel))
\* line 30
EulerVel(st, h, k1) == DAdd(st.vel, DMul(h, k1.accel))

\* MidPoint, line 53: the third argument of the call
MidPointArg3(h) == DMul(Half, h)
\* Variant of line 55 that corrects by a whole step
MidPointPosSum_FullStep(h, k1) == DAdd(k1.vel, DMul(h, k1.vel))

\* Variant of line 55 whose correction term does not depend on the stage
MidPointPosSum_Affine(h, k1) == DAdd(k1.vel, DDiv(h, Two))
\* line 55: the factor of deltaTime, and the assignment
MidPointPosSum(h, k1) == DAdd(k1.vel, DMul(DDiv(h, Two), k1.vel))
MidPointPos(st, h, k1) == DAdd(st.pos, DMul(h, MidPointPosSum(h, k1)))
\* line 56: the factor of deltaTime, and the assignment
MidPointVelSum(k1) == DMul(k1.accel, OneAndHalf)
MidPointVel(st, h, k1) == DAdd(st.vel, DMul(h, MidPointVelSum(k1)))

\* Variant of line 64 with the midpoint offset
RalstonArg3_Half(h) == DMul(Half, h)

\* Ralston, line 64: the third argument of the second call
RalstonArg3(h) == DMul(TwoThirds, h)
\* lines 66-67: 0.25 * k1 + 0.75 * k2 on one field
RalstonSum(a, b) == DAdd(DMul(Quarter, a), DMul(ThreeQuarters, b))
\* line 66
RalstonPos(st, h, k1, k2) == DAdd(st.pos, DMul(h, RalstonSum(k1.vel, k2.vel)))
\* line 67
RalstonVel(st, h, k1, k2) == DAdd(st.vel, DMul(h, RalstonSum(k1.accel, k2.accel)))

\* Variant of lines 79-80 that weighs the four stages alike
RK4Sum_NoTwo(a, b, c, d) == DAdd(DAdd(a, DAdd(b, c)), d)

\* RK4, lines 79-80: k1 + 2 * (k2 + k3) + k4 on one field
RK4Sum(a, b, c, d) == DAdd(DAdd(a, DMul(Two, DAdd(b, c))), d)
\* line 79
RK4Pos(st, h, k1, k2, k3, k4) ==
    DAdd(st.pos, DMul(DDiv(h, Six), RK4Sum(k1.vel, k2.vel, k3.vel, k4.vel)))
\* line 80
RK4Vel(st, h, k1, k2, k3, k4) ==
    DAdd(st.vel,
         DMul(DDiv(h, Six), RK4Sum(k1.accel, k2.accel, k3.accel, k4.accel)))

\* ExplicitRungeKutta, lines 104-105: one round of the accumulation
ERKAcc(acc, bi, kfld) == DAdd(acc, DMul(bi, kfld))
\* line 108
ERKPos(st, h, dPos) == DAdd(st.pos, DMul(h, dPos))
\* line 109
ERKVel(st, h, dVel) == DAdd(st.vel, DMul(h, dVel))

(***************************************************************************)
(* The steppers as functions: a whole call, run alone.                     *)
(***************************************************************************)
Euler(st, t, h, ev) ==
    LET k1 == evaluateFunc(ev, 1, st, t, EulerArg3(h), ZeroDelta)
        s1 == [st EXCEPT !.pos = EulerPos(st, h, k1)]
    IN  [s1 EXCEPT !.vel = EulerVel(s1, h, k1)]

MidPoint(st, t, h, ev) ==
    LET k1 == evaluateFunc(ev, 1, st, t, MidPointArg3(h), ZeroDelta)
        s1 == [st EXCEPT !.pos = MidPointPos(st, h, k1)]
    IN  [s1 EXCEPT !.vel = MidPointVel(s1, h, k1)]

Ralston(st, t, h, ev) ==
    LET k1 == evaluateFunc(ev, 1, st, t, Zero, ZeroDelta)
        k2 == evaluateFunc(ev, 2, st, t, RalstonArg3(h), k1)
        s1 == [st EXCEPT !.pos = RalstonPos(st, h, k1, k2)]
    IN  [s1 EXCEPT !.vel = RalstonVel(s1, h, k1, k2)]

RK4(st, t, h, ev) ==
    LET k1 == evaluateFunc(ev, 1, st, t, Zero, ZeroDelta)
        k2 == evaluateFunc(ev, 2, st, t, DMul(Half, h), k1)
        k3 == evaluateFunc(ev, 3, st, t, DMul(Half, h), k2)
        k4 == evaluateFunc(ev, 4, st, t, h, k3)
        s1 == [st EXCEPT !.pos = RK4Pos(st, h, k1, k2, k3, k4)]
    IN  [s1 EXCEPT !.vel = RK4Vel(s1, h, k1, k2, k3, k4)]

\* lines 96-100: the stages, from stage idx on
RECURSIVE ERKStages(_, _, _, _, _, _, _)
ERKStages(st, t, h, tab, ev, stages, idx) ==
    IF idx >= Len(stages) THEN stages
    ELSE ERKStages(st, t, h, tab, ev,
                   [stages EXCEPT ![idx + 1] =
                        evaluateFuncRK(ev, st, t, h, stages, tab, idx)],
                   idx + 1)

\* lines 102-106: the weighted sum of the first n stages
RECURSIVE ERKSum(_, _, _, _)
ERKSum(tab, stages, n, fld) ==
    IF n = 0 THEN Zero
    ELSE ERKAcc(ERKSum(tab, stages, n - 1, fld), tab.b[n], stages[n][fld])

ExplicitRungeKutta(st, t, h, tab, ev) ==
    LET s == Len(tab.b)
        stages == ERKStages(st, t, h, tab, ev, [j \in 1..s |-> ZeroDelta], 0)
        s1 == [st EXCEPT !.pos = ERKPos(st, h, ERKSum(tab, stages, s, "vel"))]
    IN  [s1 EXCEPT !.vel = ERKVel(s1, h, ERKSum(tab, stages, s, "accel"))]

\* The call of stepper m
Step(m, st, t, h, tab, ev) ==
    CASE m = "Euler" -> Euler(st, t, h, ev)
      [] m = "MidPoint" -> MidPoint(st, t, h, ev)
      [] m = "Ralston" -> Ralston(st, t, h, ev)
      [] m = "RK4" -> RK4(st, t, h, ev)
      [] m = "ExplicitRungeKutta" -> ExplicitRungeKutta(st, t, h, tab, ev)

\* The number of evaluator calls of one step
Stages(m, tab) ==
    CASE m = "Euler" -> 1
      [] m = "MidPoint" -> 1
      [] m = "Ralston" -> 2
      [] m = "RK4" -> 4
      [] m = "ExplicitRungeKutta" -> Len(tab.b)

\* The first statement of stepper m
Entry(m) ==
    CASE m = "Euler" -> "Euler:27"
      [] m = "MidPoint" -> "MidPoint:53"
      [] m = "Ralston" -> "Ralston:63"
      [] m = "RK4" -> "RK4:74"
      [] m = "ExplicitRungeKutta" -> "ERK:96"

(***************************************************************************)
(* The steppers as processes.  A thread t runs one call at a time on the   *)
(* ParticleState state[t] that it owns.                                    *)
(***************************************************************************)
VARIABLES
    pc,         \* pc[t]: the statement thread t executes next, "done" after the call
    method,     \* method[t]: the stepper thread t calls
    state,      \* state[t]: the ParticleState passed by reference
    time,       \* the by-value arguments of the call
    deltaTime,
    tableau,
    evaluator,  \* the evaluateFunc argument
    k,          \* the locals k1..k4 of the fixed steppers, per activation
    ks,         \* the locals of ExplicitRungeKutta, per activation
    i,
    deltaPos,
    deltaVel,
    calls,      \* history: the evaluator calls of the current step, in order
    entry,      \* history: the arguments as they were when the step began
    stepsLeft   \* the host's loop: steps still to take after this one

vars == <<pc, method, state, time, deltaTime, tableau, evaluator,
          k, ks, i, deltaPos, deltaVel, calls, entry, stepsLeft>>

Threads == DOMAIN pc

\* Variant: the locals have static storage, one copy for every call
Slot_Static(t) == 1

\* The storage of thread t's locals: automatic, one activation per call
Slot(t) == t

NoLocals == [n \in 1..4 |-> ZeroDelta]

\* One evaluator call, as the history records it
CallRecord(st, t, a3, prev, stages, idx, r) ==
    [state |-> st, time |-> t, arg3 |-> a3, prev |-> prev,
     ks |-> stages, idx |-> idx, ret |-> r]

\* kN = evaluateFunc(state, time, off, prev)
CallInto(t, n, off, prev, next) ==
    /\ k' = [k EXCEPT ![Slot(t)][n] =
                evaluateFunc(evaluator[t], n, state[t], time[t], off, prev)]
    /\ calls' = [calls EXCEPT ![t] =
                    Append(@, CallRecord(state[t], time[t], off, prev, <<>>, -1,
                                         k'[Slot(t)][n]))]
    /\ pc' = [pc EXCEPT ![t] = next]
    /\ UNCHANGED <<method, state, time, deltaTime, tableau, evaluator,
                   ks, i, deltaPos, deltaVel, entry, stepsLeft>>

\* state.fld = val
Store(t, fld, val, next) ==
    /\ state' = [state EXCEPT ![t][fld] = val]
    /\ pc' = [pc EXCEPT ![t] = next]
    /\ UNCHANGED <<method, time, deltaTime, tableau, evaluator,
                   k, ks, i, deltaPos, deltaVel, calls, entry, stepsLeft>>

K(t, n) == k[Slot(t)][n]

Euler_27(t) ==
    /\ pc[t] = "Euler:27"
    /\ CallInto(t, 1, EulerArg3(deltaTime[t]), ZeroDelta, "Euler:29")

Euler_29(t) ==
    /\ pc[t] = "Euler:29"
    /\ Store(t, "pos", EulerPos(state[t], deltaTime[t], K(t, 1)), "Euler:30")

Euler_30(t) ==
    /\ pc[t] = "Euler:30"
    /\ Store(t, "vel", EulerVel(state[t], deltaTime[t], K(t, 1)), "done")

MidPoint_53(t) ==
    /\ pc[t] = "MidPoint:53"
    /\ CallInto(t, 1, MidPointArg3(deltaTime[t]), ZeroDelta, "MidPoint:55")

MidPoint_55(t) ==
    /\ pc[t] = "MidPoint:55"
    /\ Store(t, "pos", MidPointPos(state[t], deltaTime[t], K(t, 1)), "MidPoint:56")

MidPoint_56(t) ==
    /\ pc[t] = "MidPoint:56"
    /\ Store(t, "vel", MidPointVel(state[t], deltaTime[t], K(t, 1)), "done")

Ralston_63(t) ==
    /\ pc[t] = "Ralston:63"
    /\ CallInto(t, 1, Zero, ZeroDelta, "Ralston:64")

Ralston_64(t) ==
    /\ pc[t] = "Ralston:64"
    /\ CallInto(t, 2, RalstonArg3(deltaTime[t]), K(t, 1), "Ralston:66")

Ralston_66(t) ==
    /\ pc[t] = "Ralston:66"
    /\ Store(t, "pos", RalstonPos(state[t], deltaTime[t], K(t, 1), K(t, 2)),
             "Ralston:67")

Ralston_67(t) ==
    /\ pc[t] = "Ralston:67"
    /\ Store(t, "vel", RalstonVel(state[t], deltaTime[t], K(t, 1), K(t, 2)), "done")

RK4_74(t) ==
    /\ pc[t] = "RK4:74"
    /\ CallInto(t, 1, Zero, ZeroDelta, "RK4:75")

RK4_75(t) ==
    /\ pc[t] = "RK4:75"
    /\ CallInto(t, 2, DMul(Half, deltaTime[t]), K(t, 1), "RK4:76")

\* Variant of line 76 that advances state.pos in place before the third stage
RK4_76_EarlyWrite(t) ==
    /\ pc[t] = "RK4:76"
    /\ k' = [k EXCEPT ![Slot(t)][3] =
                evaluateFunc(evaluator[t], 3, state[t], time[t],
                             DMul(Half, deltaTime[t]), K(t, 2))]
    /\ calls' = [calls EXCEPT ![t] =
                    Append(@, CallRecord(state[t], time[t], DMul(Half, deltaTime[t]),
                                         K(t, 2), <<>>, -1, k'[Slot(t)][3]))]
    /\ state' = [state EXCEPT ![t].pos =
                    DAdd(@, DMul(DMul(Half, deltaTime[t]), k'[Slot(t)][3].vel))]
    /\ pc' = [pc EXCEPT ![t] = "RK4:77"]
    /\ UNCHANGED <<method, time, deltaTime, tableau, evaluator,
                   ks, i, deltaPos, deltaVel, entry, stepsLeft>>

\* line 76
RK4_76(t) ==
    /\ pc[t] = "RK4:76"
    /\ CallInto(t, 3, DMul(Half, deltaTime[t]), K(t, 2), "RK4:77")

RK4_77(t) ==
    /\ pc[t] = "RK4:77"
    /\ CallInto(t, 4, deltaTime[t], K(t, 3), "RK4:79")

RK4_79(t) ==
    /\ pc[t] = "RK4:79"
    /\ Store(t, "pos",
             RK4Pos(state[t], deltaTime[t], K(t, 1), K(t, 2), K(t, 3), K(t, 4)),
             "RK4:80")

RK4_80(t) ==
    /\ pc[t] = "RK4:80"
    /\ Store(t, "vel",
             RK4Vel(state[t], deltaTime[t], K(t, 1), K(t, 2), K(t, 3), K(t, 4)),
             "done")

\* vector<DeltaState> ks(tableau.b.size());  and the loop's  int i = 0
ERK_96(t) ==
    /\ pc[t] = "ERK:96"
    /\ ks' = [ks EXCEPT ![Slot(t)] = [j \in 1..Len(tableau[t].b) |-> ZeroDelta]]
    /\ i' = [i EXCEPT ![Slot(t)] = 0]
    /\ pc' = [pc EXCEPT ![t] = "ERK:97"]
    /\ UNCHANGED <<method, state, time, deltaTime, tableau, evaluator,
                   k, deltaPos, deltaVel, calls, entry, stepsLeft>>

\* Variant of line 99 that hands the evaluator a fresh, all-zero vector
ERK_99_FreshKs(t) ==
    /\ pc[t] = "ERK:97"
    /\ i[Slot(t)] < Len(ks[Slot(t)])
    /\ ks' = [ks EXCEPT ![Slot(t)][i[Slot(t)] + 1] =
                 evaluateFuncRK(evaluator[t], state[t], time[t], deltaTime[t],
                                [j \in 1..Len(ks[Slot(t)]) |-> ZeroDelta],
                                tableau[t], i[Slot(t)])]
    /\ calls' = [calls EXCEPT ![t] =
                    Append(@, CallRecord(state[t], time[t], deltaTime[t], ZeroDelta,
                                         [j \in 1..Len(ks[Slot(t)]) |-> ZeroDelta],
                                         i[Slot(t)], ks'[Slot(t)][i[Slot(t)] + 1]))]
    /\ i' = [i EXCEPT ![Slot(t)] = @ + 1]
    /\ UNCHANGED <<pc, method, state, time, deltaTime, tableau, evaluator,
                   k, deltaPos, deltaVel, entry, stepsLeft>>

\* i < ks.size():  ks[i] = evaluateFunc(state, time, deltaTime, ks, tableau, i);  i++
ERK_99(t) ==
    /\ pc[t] = "ERK:97"
    /\ i[Slot(t)] < Len(ks[Slot(t)])
    /\ ks' = [ks EXCEPT ![Slot(t)][i[Slot(t)] + 1] =
                 evaluateFuncRK(evaluator[t], state[t], time[t], deltaTime[t],
                                ks[Slot(t)], tableau[t], i[Slot(t)])]
    /\ calls' = [calls EXCEPT ![t] =
                    Append(@, CallRecord(state[t], time[t], deltaTime[t],
                                         ZeroDelta, ks[Slot(t)], i[Slot(t)],
                                         ks'[Slot(t)][i[Slot(t)] + 1]))]
    /\ i' = [i EXCEPT ![Slot(t)] = @ + 1]
    /\ UNCHANGED <<pc, method, state, time, deltaTime, tableau, evaluator,
                   k, deltaPos, deltaVel, entry, stepsLeft>>

\* the loop is over:  double deltaPos = 0., deltaVel = 0.;  and  int i = 0
ERK_102(t) ==
    /\ pc[t] = "ERK:97"
    /\ i[Slot(t)] >= Len(ks[Slot(t)])
    /\ deltaPos' = [deltaPos EXCEPT ![Slot(t)] = Zero]
    /\ deltaVel' = [deltaVel EXCEPT ![Slot(t)] = Zero]
    /\ i' = [i EXCEPT ![Slot(t)] = 0]
    /\ pc' = [pc EXCEPT ![t] = "ERK:103"]
    /\ UNCHANGED <<method, state, time, deltaTime, tableau, evaluator,
                   k, ks, calls, entry, stepsLeft>>

\* i < tableau.b.size():  deltaPos += ...;  deltaVel += ...;  i++
ERK_104(t) ==
    /\ pc[t] = "ERK:103"
    /\ i[Slot(t)] < Len(tableau[t].b)
    /\ deltaPos' = [deltaPos EXCEPT ![Slot(t)] =
                       ERKAcc(@, tableau[t].b[i[Slot(t)] + 1],
                              ks[Slot(t)][i[Slot(t)] + 1].vel)]
    /\ deltaVel' = [deltaVel EXCEPT ![Slot(t)] =
                       ERKAcc(@, tableau[t].b[i[Slot(t)] + 1],
                              ks[Slot(t)][i[Slot(t)] + 1].accel)]
    /\ i' = [i EXCEPT ![Slot(t)] = @ + 1]
    /\ UNCHANGED <<pc, method, state, time, deltaTime, tableau, evaluator,
                   k, ks, calls, entry, stepsLeft>>

ERK_108(t) ==
    /\ pc[t] = "ERK:103"
    /\ i[Slot(t)] >= Len(tableau[t].b)
    /\ Store(t, "pos", ERKPos(state[t], deltaTime[t], deltaPos[Slot(t)]), "ERK:109")

ERK_109(t) ==
    /\ pc[t] = "ERK:109"
    /\ Store(t, "vel", ERKVel(state[t], deltaTime[t], deltaVel[Slot(t)]), "done")

\* The host's loop: the next step of the same particle, at time + deltaTime
Advance(t) ==
    /\ pc[t] = "done"
    /\ stepsLeft[t] > 0
    /\ stepsLeft' = [stepsLeft EXCEPT ![t] = @ - 1]
    /\ time' = [time EXCEPT ![t] = DAdd(@, deltaTime[t])]
    /\ pc' = [pc EXCEPT ![t] = Entry(method[t])]
    /\ calls' = [calls EXCEPT ![t] = <<>>]
    /\ entry' = [entry EXCEPT ![t] =
                    [state |-> state[t], time |-> DAdd(time[t], deltaTime[t]),
                     deltaTime |-> deltaTime[t], tableau |-> tableau[t]]]
    /\ k' = [k EXCEPT ![Slot(t)] = NoLocals]
    /\ ks' = [ks EXCEPT ![Slot(t)] = <<>>]
    /\ i' = [i EXCEPT ![Slot(t)] = 0]
    /\ deltaPos' = [deltaPos EXCEPT ![Slot(t)] = Zero]
    /\ deltaVel' = [deltaVel EXCEPT ![Slot(t)] = Zero]
    /\ UNCHANGED <<method, state, deltaTime, tableau, evaluator>>

(***************************************************************************)
(* The calls the model explores.                                           *)
(***************************************************************************)
\* ExplicitRungeKutta is tried with tableaux of 0..MaxStages stages
MaxStages == 3

Huge == Q(DblMax, 0, 0)

NoTableau == [a |-> <<>>, b |-> <<>>, c |-> <<>>]

\* Ralston's method: c = [0, 2/3], b = [1/4, 3/4], a = [[0, 0], [2/3, 0]]
RalstonTableau ==
    [a |-> << <<Zero, Zero>>, <<TwoThirds, Zero>> >>,
     b |-> <<Quarter, ThreeQuarters>>,
     c |-> <<Zero, TwoThirds>>]

\* An explicit tableau of s stages: weights 1, 2, .., s, couplings 1/2
RampTableau(s) ==
    [a |-> [r \in 1..s |-> [j \in 1..s |-> IF j < r THEN Half ELSE Zero]],
     b |-> [r \in 1..s |-> Q(r, 0, 0)],
     c |-> [r \in 1..s |-> IF r = 1 THEN Zero ELSE Half]]

Tableaus == {RalstonTableau} \cup {RampTableau(s) : s \in 0..MaxStages}

Methods == {"Euler", "MidPoint", "Ralston", "RK4", "ExplicitRungeKutta"}
FixedMethods == Methods \ {"ExplicitRungeKutta"}

TableausOf(m) == IF m = "ExplicitRungeKutta" THEN Tableaus ELSE {NoTableau}

States == {[pos |-> One, vel |-> Q(-1, 1, 0)], [pos |-> Zero, vel |-> Two]}
Times == {Zero, One}
Steps == {Zero, Half, Q(-1, 0, 0)}

\* What a stage may return: ordinary values, the largest finite value, an infinity
DeltaVals ==
    {[vel |-> One, accel |-> Q(-1, 1, 0)],
     [vel |-> Q(-1, 1, 0), accel |-> Huge],
     [vel |-> Huge, accel |-> One],
     [vel |-> Inf(FALSE), accel |-> Two]}

TblEv(tb, sc) ==
    [kind |-> "tbl", tbl |-> tb, scale |-> sc, a |-> Zero, b |-> Zero, c |-> Zero]

OdeEv(a, b, c) ==
    [kind |-> "ode", tbl |-> <<>>, scale |-> One, a |-> a, b |-> b, c |-> c]

TblEvs(n, vals) == {TblEv(tb, One) : tb \in [1..n -> vals]}

OdeEvs == {OdeEv(a, b, c) : a \in {Zero, One}, b \in {Zero, One}, c \in {Zero, One}}

Config(m, st, t, h, tab, ev, n) ==
    [method |-> m, state |-> st, time |-> t, deltaTime |-> h, tableau |-> tab,
     evaluator |-> ev, steps |-> n]

\* One call, of any stepper
CallConfigs ==
    {Config(x[1], x[2], Zero, x[3], x[4], x[5], 0) :
        x \in UNION {UNION {{m} \X States \X Steps \X {tab}
                                \X TblEvs(Stages(m, tab), DeltaVals)
                            : tab \in TableausOf(m)} : m \in Methods}}
    \cup
    {Config(x[1], x[2], x[3], x[4], x[5], x[6], 0) :
        x \in UNION {{m} \X States \X Times \X Steps \X TableausOf(m) \X OdeEvs
                     : m \in Methods}}

InitFrom(cs) ==
    /\ pc = [t \in DOMAIN cs |-> Entry(cs[t].method)]
    /\ method = [t \in DOMAIN cs |-> cs[t].method]
    /\ state = [t \in DOMAIN cs |-> cs[t].state]
    /\ time = [t \in DOMAIN cs |-> cs[t].time]
    /\ deltaTime = [t \in DOMAIN cs |-> cs[t].deltaTime]
    /\ tableau = [t \in DOMAIN cs |-> cs[t].tableau]
    /\ evaluator = [t \in DOMAIN cs |-> cs[t].evaluator]
    /\ k = [t \in DOMAIN cs |-> NoLocals]
    /\ ks = [t \in DOMAIN cs |-> <<>>]
    /\ i = [t \in DOMAIN cs |-> 0]
    /\ deltaPos = [t \in DOMAIN cs |-> Zero]
    /\ deltaVel = [t \in DOMAIN cs |-> Zero]
    /\ calls = [t \in DOMAIN cs |-> <<>>]
    /\ entry = [t \in DOMAIN cs |->
                  [state |-> cs[t].state, time |-> cs[t].time,
                   deltaTime |-> cs[t].deltaTime, tableau |-> cs[t].tableau]]
    /\ stepsLeft = [t \in DOMAIN cs |-> cs[t].steps]

Init == \E c \in CallConfigs : InitFrom(<<c>>)

Next ==
    \/ \E t \in Threads : Euler_27(t)
    \/ \E t \in Threads : Euler_29(t)
    \/ \E t \in Threads : Euler_30(t)
    \/ \E t \in Threads : MidPoint_53(t)
    \/ \E t \in Threads : MidPoint_55(t)
    \/ \E t \in Threads : MidPoint_56(t)
    \/ \E t \in Threads : Ralston_63(t)
    \/ \E t \in Threads : Ralston_64(t)
    \/ \E t \in Threads : Ralston_66(t)
    \/ \E t \in Threads : Ralston_67(t)
    \/ \E t \in Threads : RK4_74(t)
    \/ \E t \in Threads : RK4_75(t)
    \/ \E t \in Threads : RK4_76(t)
    \/ \E t \in Threads : RK4_77(t)
    \/ \E t \in Threads : RK4_79(t)
    \/ \E t \in Threads : RK4_80(t)
    \/ \E t \in Threads : ERK_96(t)
    \/ \E t \in Threads : ERK_99(t)
    \/ \E t \in Threads : ERK_102(t)
    \/ \E t \in Threads : ERK_104(t)
    \/ \E t \in Threads : ERK_108(t)
    \/ \E t \in Threads : ERK_109(t)

\* One call of one stepper
Spec == Init /\ [][Next]_vars

(***************************************************************************)
(* Properties of one call.                                                 *)
(***************************************************************************)
Done(t) == pc[t] = "done"

\* Every stage of the current step returned finite values
RetsFinite(t) ==
    \A n \in 1..Len(calls[t]) :
        IsFinite(calls[t][n].ret.vel) /\ IsFinite(calls[t][n].ret.accel)

\* The two sums of stages that the stepper multiplies by (a multiple of) deltaTime
StepSums(t) ==
    CASE method[t] = "Euler" ->
            [pos |-> K(t, 1).vel, vel |-> K(t, 1).accel]
      [] method[t] = "MidPoint" ->
            [pos |-> MidPointPosSum(deltaTime[t], K(t, 1)),
             vel |-> MidPointVelSum(K(t, 1))]
      [] method[t] = "Ralston" ->
            [pos |-> RalstonSum(K(t, 1).vel, K(t, 2).vel),
             vel |-> RalstonSum(K(t, 1).accel, K(t, 2).accel)]
      [] method[t] = "RK4" ->
            [pos |-> RK4Sum(K(t, 1).vel, K(t, 2).vel, K(t, 3).vel, K(t, 4).vel),
             vel |-> RK4Sum(K(t, 1).accel, K(t, 2).accel, K(t, 3).accel,
                            K(t, 4).accel)]
      [] method[t] = "ExplicitRungeKutta" ->
            [pos |-> deltaPos[Slot(t)], vel |-> deltaVel[Slot(t)]]

SumsFinite(t) == IsFinite(StepSums(t).pos) /\ IsFinite(StepSums(t).vel)

\* C1: in ExplicitRungeKutta the evaluator is called once per stage index, in
\* increasing order 0, 1, .., s-1; the call for stage i is made after the calls
\* for the stages before it have returned and been stored, and the ks it is
\* handed holds exactly their returned values at positions 0..i-1.
C1_StagesInOrder ==
    \A t \in Threads :
        method[t] = "ExplicitRungeKutta" =>
            /\ Len(calls[t]) <= Len(tableau[t].b)
            /\ \A n \in 1..Len(calls[t]) :
                  /\ calls[t][n].idx = n - 1
                  /\ Len(calls[t][n].ks) = Len(tableau[t].b)
                  /\ \A j \in 1..(n - 1) : calls[t][n].ks[j] = calls[t][j].ret
                  /\ ks[Slot(t)][n] = calls[t][n].ret
            /\ pc[t] \in {"ERK:103", "ERK:109", "done"}
                  => Len(calls[t]) = Len(tableau[t].b)

\* A three-stage call is over, and its last stage was handed a non-zero ks[1]
C1_Witness ==
    \E t \in Threads :
        /\ method[t] = "ExplicitRungeKutta"
        /\ Done(t)
        /\ Len(calls[t]) = 3
        /\ calls[t][3].ks[2] # ZeroDelta
        /\ calls[t][3].ks[2] = calls[t][2].ret

\* C3 as stated: a call with deltaTime = 0 whose stages all returned finite
\* values leaves state.pos and state.vel as they were.
C3_ZeroStepIdentity ==
    \A t \in Threads :
        (Done(t) /\ entry[t].deltaTime = Zero /\ RetsFinite(t))
            => state[t] = entry[t].state

\* C3 amended: a call with deltaTime = 0 whose stages all returned finite values
\* leaves state.pos and state.vel as they were provided the sums of stages that
\* the stepper forms are finite too; for Euler and Ralston they always are.
C3_ZeroStepIdentityFiniteSums ==
    \A t \in Threads :
        (Done(t) /\ RetsFinite(t)) =>
            /\ (entry[t].deltaTime = Zero /\ SumsFinite(t))
                  => state[t] = entry[t].state
            /\ method[t] \in {"Euler", "Ralston"} => SumsFinite(t)

\* A four-stage call with deltaTime = 0 and finite, non-zero stages is over
C3_Witness ==
    \E t \in Threads :
        /\ method[t] = "RK4"
        /\ Done(t)
        /\ entry[t].deltaTime = Zero
        /\ RetsFinite(t)
        /\ SumsFinite(t)
        /\ \A n \in 1..4 : calls[t][n].ret.vel # Zero
        /\ state[t] = entry[t].state

\* C5: Euler makes exactly one evaluator call, with (state, time, time offset 0,
\* all-zero previous stage), and then sets pos to pos + h*k1.vel and vel to
\* vel + h*k1.accel.
C5_EulerCall ==
    \A t \in Threads :
        (method[t] = "Euler" /\ Done(t)) =>
            /\ Len(calls[t]) = 1
            /\ calls[t][1].state = entry[t].state
            /\ calls[t][1].time = entry[t].time
            /\ calls[t][1].arg3 = Zero
            /\ calls[t][1].prev = ZeroDelta
            /\ state[t].pos = DAdd(entry[t].state.pos,
                                   DMul(entry[t].deltaTime, calls[t][1].ret.vel))
            /\ state[t].vel = DAdd(entry[t].state.vel,
                                   DMul(entry[t].deltaTime, calls[t][1].ret.accel))

\* The documented midpoint rule (lines 34-36):
\* y_{n+1} = y_n + h * f(t_n + h/2, y_n + h/2 * f(t_n, y_n))
DocMidPoint(ev, t, y, h) ==
    DAdd(y, DMul(h, F(ev, DAdd(t, DDiv(h, Two)),
                      DAdd(y, DMul(DDiv(h, Two), F(ev, t, y))))))

\* C6: one MidPoint step computes the documented
\* y_{n+1} = y_n + h*f(t_n + h/2, y_n + (h/2)*f(t_n, y_n)) for the position and
\* for the velocity.
C6_MidPointAsDocumented ==
    \A t \in Threads :
        (method[t] = "MidPoint" /\ Done(t) /\ evaluator[t].kind = "ode") =>
            /\ state[t].pos = DocMidPoint(evaluator[t], entry[t].time,
                                          entry[t].state.pos, entry[t].deltaTime)
            /\ state[t].vel = DocMidPoint(evaluator[t], entry[t].time,
                                          entry[t].state.vel, entry[t].deltaTime)

\* C10: pos and vel are not written before the last evaluator call of the step
\* has returned; every evaluator call of the step gets the pre-step state and the
\* same time; the step makes 1, 1, 2, 4, s calls; time, deltaTime and the tableau
\* are left as they were.
C10_WritesAfterLastCall ==
    \A t \in Threads :
        /\ \A n \in 1..Len(calls[t]) :
              /\ calls[t][n].state = entry[t].state
              /\ calls[t][n].time = entry[t].time
        /\ Len(calls[t]) < Stages(method[t], tableau[t])
              => state[t] = entry[t].state
        /\ Done(t) => Len(calls[t]) = Stages(method[t], tableau[t])
        /\ time[t] = entry[t].time
        /\ deltaTime[t] = entry[t].deltaTime
        /\ tableau[t] = entry[t].tableau

\* A four-stage call is over and has changed both pos and vel
C10_Witness ==
    \E t \in Threads :
        /\ method[t] = "RK4"
        /\ Done(t)
        /\ Len(calls[t]) = 4
        /\ state[t].pos # entry[t].state.pos
        /\ state[t].vel # entry[t].state.vel

(***************************************************************************)
(* Two calls at once, each thread on its own ParticleState.                *)
(***************************************************************************)
PairDeltaVals ==
    {[vel |-> One, accel |-> Q(-1, 1, 0)], [vel |-> Two, accel |-> Q(DblMax, 1, 0)]}

Scales == {Two, Q(-1, 0, 0), Zero}

\* The same call twice, the second with every stage scaled
ScaledPairs ==
    {<<Config(x[1], x[2], Zero, x[3], x[4], TblEv(x[5], One), 0),
       Config(x[1], x[2], Zero, x[3], x[4], TblEv(x[5], x[6]), 0)>> :
        x \in UNION {UNION {{m} \X {[pos |-> One, vel |-> Q(-1, 1, 0)]}
                                \X {Half, Q(-1, 0, 0)} \X {tab}
                                \X [1..Stages(m, tab) -> PairDeltaVals] \X Scales
                            : tab \in TableausOf(m)} : m \in Methods}}

\* Ralston beside ExplicitRungeKutta with Ralston's tableau, on the same problem
RalstonPairs ==
    {<<Config("Ralston", x[1], x[2], x[3], NoTableau, x[4], 0),
       Config("ExplicitRungeKutta", x[1], x[2], x[3], RalstonTableau, x[4], 0)>> :
        x \in States \X Times \X Steps \X OdeEvs}

\* Any two steppers, on different particles
MixedPairs ==
    {<<Config(x[1], [pos |-> One, vel |-> Q(-1, 1, 0)], Zero, Half,
              IF x[1] = "ExplicitRungeKutta" THEN RampTableau(2) ELSE NoTableau,
              OdeEv(One, One, Zero), 0),
       Config(x[2], [pos |-> Zero, vel |-> Two], One, Q(-1, 0, 0),
              IF x[2] = "ExplicitRungeKutta" THEN RalstonTableau ELSE NoTableau,
              OdeEv(One, Zero, One), 0)>> :
        x \in Methods \X Methods}

InitPair == \E p \in ScaledPairs \cup RalstonPairs \cup MixedPairs : InitFrom(p)

\* Two concurrent calls, interleaved statement by statement
SpecPair == InitPair /\ [][Next]_vars

\* x - y and x * y without overflow: the differences and products the claims
\* speak of are those of the values, whatever a double could hold
ExactSub(x, y) ==
    IF IsFinite(x) /\ IsFinite(y) THEN FinAdd(x, DNeg(y)) ELSE DSub(x, y)

ExactMul(x, y) ==
    IF IsFinite(x) /\ IsFinite(y) THEN FinMul(x, y) ELSE DMul(x, y)

\* What the step of thread t has changed so far
Change(t) ==
    [pos |-> ExactSub(state[t].pos, entry[t].state.pos),
     vel |-> ExactSub(state[t].vel, entry[t].state.vel)]

\* The result of thread t's call, had it run alone
Alone(t) ==
    Step(method[t], entry[t].state, entry[t].time, entry[t].deltaTime,
         entry[t].tableau, evaluator[t])

\* Threads t and u make the same call, and every stage of u returned c times
\* what the same stage of t returned
ScaledBy(t, u, c) ==
    /\ method[t] = method[u]
    /\ entry[t] = entry[u]
    /\ Len(calls[t]) = Len(calls[u])
    /\ \A n \in 1..Len(calls[t]) :
          /\ calls[u][n].ret.vel = ExactMul(c, calls[t][n].ret.vel)
          /\ calls[u][n].ret.accel = ExactMul(c, calls[t][n].ret.accel)

BothFinite(st) == IsFinite(st.pos) /\ IsFinite(st.vel)

\* t runs Ralston, u runs ExplicitRungeKutta with Ralston's tableau, on the same
\* state, time, deltaTime and derivative function
SameRalstonProblem(t, u) ==
    /\ method[t] = "Ralston"
    /\ method[u] = "ExplicitRungeKutta"
    /\ entry[u].tableau = RalstonTableau
    /\ evaluator[t].kind = "ode"
    /\ evaluator[u] = evaluator[t]
    /\ entry[u].state = entry[t].state
    /\ entry[u].time = entry[t].time
    /\ entry[u].deltaTime = entry[t].deltaTime

\* C2: ExplicitRungeKutta with Ralston's tableau and a generic evaluator that
\* builds stage i's point from tableau.a[i][0..i-1] and ks[0..i-1] ends with the
\* pos and vel of the Ralston stepper run with the fixed-stage evaluator of the
\* same derivative function.
C2_RalstonEquivalence ==
    \A t, u \in Threads :
        (SameRalstonProblem(t, u) /\ Done(t) /\ Done(u)) => state[u] = state[t]

\* Both calls are over, on a problem where f depends on y and t, and moved the state
C2_Witness ==
    \E t, u \in Threads :
        /\ SameRalstonProblem(t, u)
        /\ Done(t) /\ Done(u)
        /\ evaluator[t].a = One /\ evaluator[t].b = One
        /\ entry[t].time = One
        /\ entry[t].deltaTime = Half
        /\ state[t].pos # entry[t].state.pos
        /\ state[u] = state[t]

\* C4 as stated: when every stage of a step returns k times what it returned in
\* another step of the same stepper on the same arguments, the change of pos and
\* the change of vel are k times what they were.
C4_Linearity ==
    \A t, u \in Threads : \A c \in Scales :
        (t # u /\ Done(t) /\ Done(u) /\ ScaledBy(t, u, c)) =>
            /\ Change(u).pos = ExactMul(c, Change(t).pos)
            /\ Change(u).vel = ExactMul(c, Change(t).vel)

\* C4 amended: the same, provided neither step overflowed (both end with finite
\* pos and vel).
C4_LinearityInRange ==
    \A t, u \in Threads : \A c \in Scales :
        (t # u /\ Done(t) /\ Done(u) /\ ScaledBy(t, u, c)
              /\ BothFinite(state[t]) /\ BothFinite(state[u])) =>
            /\ Change(u).pos = ExactMul(c, Change(t).pos)
            /\ Change(u).vel = ExactMul(c, Change(t).vel)

\* Two four-stage steps are over, the second with every stage doubled, both in
\* range, and the first one moved pos and vel
C4_Witness ==
    \E t, u \in Threads :
        /\ t # u /\ Done(t) /\ Done(u)
        /\ method[t] = "RK4"
        /\ ScaledBy(t, u, Two)
        /\ BothFinite(state[t]) /\ BothFinite(state[u])
        /\ Change(t).pos # Zero /\ Change(t).vel # Zero
        /\ Change(u).pos = ExactMul(Two, Change(t).pos)

\* The statements after the write of state.pos
PosWritten == {"Euler:30", "MidPoint:56", "Ralston:67", "RK4:80", "ERK:109"}

\* C9: two calls run concurrently on disjoint ParticleStates: under every
\* interleaving each state holds, at every point of its own call, what it would
\* hold in that call run alone (untouched until the write of pos, then the new
\* pos, then the new pos and vel), whatever the other call does meanwhile.
C9_ConcurrentAsAlone ==
    \A t \in Threads :
        state[t] = IF Done(t) THEN Alone(t)
                   ELSE IF pc[t] \in PosWritten
                        THEN [entry[t].state EXCEPT !.pos = Alone(t).pos]
                   ELSE entry[t].state

\* Both calls are over, each moved its state, and they are calls of different
\* evaluators
C9_Witness ==
    \E t, u \in Threads :
        /\ t # u /\ Done(t) /\ Done(u)
        /\ evaluator[t] # evaluator[u]
        /\ state[t] # entry[t].state /\ state[u] # entry[u].state
        /\ state[t] = Alone(t) /\ state[u] = Alone(u)

(***************************************************************************)
(* The worked example of the documentation: dy/dt = y, y(0) = 1, h = 0.5,  *)
(* y(4) wanted.  The host integrates it with Euler, then with MidPoint,     *)
(* then with RK4; y is carried by pos and by vel alike (the                *)
(* evaluator returns f at the intermediate pos as vel and f at the         *)
(* intermediate vel as accel).                                             *)
(***************************************************************************)
\* The number of steps from t = 0 to t = 4
NumSteps == 8

OdeConfig(m) ==
    Config(m, [pos |-> One, vel |-> One], Zero, Half, NoTableau,
           OdeEv(One, Zero, Zero), NumSteps - 1)

InitOde == InitFrom(<<OdeConfig("Euler"), OdeConfig("MidPoint"), OdeConfig("RK4")>>)

\* The host of the example is sequential: it integrates with one stepper after
\* the other
Turn(t) == \A u \in Threads : u < t => (pc[u] = "done" /\ stepsLeft[u] = 0)

NextOde ==
    \/ \E t \in Threads : Turn(t) /\ Euler_27(t)
    \/ \E t \in Threads : Turn(t) /\ Euler_29(t)
    \/ \E t \in Threads : Turn(t) /\ Euler_30(t)
    \/ \E t \in Threads : Turn(t) /\ MidPoint_53(t)
    \/ \E t \in Threads : Turn(t) /\ MidPoint_55(t)
    \/ \E t \in Threads : Turn(t) /\ MidPoint_56(t)
    \/ \E t \in Threads : Turn(t) /\ RK4_74(t)
    \/ \E t \in Threads : Turn(t) /\ RK4_75(t)
    \/ \E t \in Threads : Turn(t) /\ RK4_76(t)
    \/ \E t \in Threads : Turn(t) /\ RK4_77(t)
    \/ \E t \in Threads : Turn(t) /\ RK4_79(t)
    \/ \E t \in Threads : Turn(t) /\ RK4_80(t)
    \/ \E t \in Threads : Turn(t) /\ Advance(t)

\* NumSteps successive steps of each of the three steppers
SpecOde == InitOde /\ [][NextOde]_vars

\* Thread t has taken n steps and is between steps
Taken(t, n) == Done(t) /\ stepsLeft[t] = NumSteps - n

\* |x - y| <= tol
Within(x, y, tol) == ~DLess(tol, DAbs(DSub(x, y)))

\* The y column of MidPoint's worked table (lines 39-46)
MidPointTable ==
    <<Dec(16250, 4), Dec(26406, 4), Dec(42910, 4), Dec(69729, 4),
      Dec(113310, 4), Dec(184128, 4), Dec(299208, 4), Dec(486213, 4)>>

\* e^4 as the documentation and the claim give it
ExpFour == Dec(54598, 3)

\* C7: for dy/dt = y, y(0) = 1, h = 0.5, with y the position, eight successive
\* MidPoint steps from t = 0 leave y(4) within 1e-3 of 48.6213, and after each
\* step y is the value of the worked table (to the table's four decimals).
C7_MidPointExample ==
    \A t \in Threads : \A n \in 1..NumSteps :
        (method[t] = "MidPoint" /\ Taken(t, n)) =>
            /\ Within(state[t].pos, MidPointTable[n], Dec(1, 4))
            /\ n = NumSteps => Within(state[t].pos, Dec(486213, 4), Dec(1, 3))

\* The eighth MidPoint step is over; it began at t = 3.5
C7_Witness ==
    \E t \in Threads :
        /\ method[t] = "MidPoint"
        /\ Taken(t, NumSteps)
        /\ time[t] = Q(7, 1, 0)
        /\ Len(calls[t]) = 1
        /\ DLess(Dec(48, 0), state[t].pos)

\* Each of the three steppers has taken its NumSteps steps
AllTaken == \A t \in Threads : Taken(t, NumSteps)

\* x is nearer to e^4 than y is
Closer(x, y) == DLess(DAbs(DSub(x, ExpFour)), DAbs(DSub(y, ExpFour)))

\* The RK4 result is nearer to e^4 than the Euler and the MidPoint results
RK4Closest ==
    \A t, u \in Threads :
        (method[t] = "RK4" /\ method[u] # "RK4") =>
            /\ Closer(state[t].pos, state[u].pos)
            /\ Closer(state[t].vel, state[u].vel)

\* C8 as stated: eight RK4 steps give a y(4) within 1e-2 of e^4 = 54.598 that is
\* closer to it than eight Euler steps and eight MidPoint steps.
C8_RK4Example ==
    AllTaken =>
        /\ \A t \in Threads :
              method[t] = "RK4" =>
                  /\ Within(state[t].pos, ExpFour, Dec(1, 2))
                  /\ Within(state[t].vel, ExpFour, Dec(1, 2))
        /\ RK4Closest

\* C8 amended: eight RK4 steps give a y(4) within 1e-1 of e^4 = 54.598 (it is
\* 54.5230, 0.075 short) that is closer to it than eight Euler steps and eight
\* MidPoint steps.
C8_RK4ExampleTenth ==
    AllTaken =>
        /\ \A t \in Threads :
              method[t] = "RK4" =>
                  /\ Within(state[t].pos, ExpFour, Dec(1, 1))
                  /\ Within(state[t].vel, ExpFour, Dec(1, 1))
                  /\ Within(state[t].pos, Dec(545230, 4), Dec(1, 4))
        /\ RK4Closest

\* All three have arrived at t = 4, RK4 with four calls in its last step
C8_Witness ==
    /\ AllTaken
    /\ \E t \in Threads :
          /\ method[t] = "RK4"
          /\ Len(calls[t]) = 4
          /\ time[t] = Q(7, 1, 0)
          /\ DLess(Dec(54, 0), state[t].pos)
    /\ \E u \in Threads : method[u] = "Euler" /\ DLess(state[u].pos, Dec(26, 0))

====
